---------------------------- MODULE Spec2Model ----------------------------
(***************************************************************************)
(* A model of neuroanalysis/miesnwb.py: the lab-notebook reconciliation of *)
(* MiesNwb.notebook(), the store handle of MiesNwb and the cached group of *)
(* MiesRecording, the metadata derived in MiesRecording.__init__, the      *)
(* command trace of MiesTrace.data, baseline_regions, the nearest test     *)
(* pulse search and the mode-gated quantities of MiesTestPulse.            *)
(*                                                                         *)
(* Floating point values are records [t, v, e]: t is "num", "nan", "inf"   *)
(* or "none" (Python's None), and a "num" stands for the decimal v * 10^e, *)
(* so unit scalings (by 1e-3, by 1e6) and int() truncation are computed,   *)
(* not taken as the identity.  Rounding of binary floating point is not    *)
(* modelled: arithmetic is exact.                                          *)
(***************************************************************************)
EXTENDS Integers, Sequences, FiniteSets, TLC

VARIABLES
    \* ---- MiesNwb.notebook() ----
    nb_keys,        \* numericalKeys[0]: the ordered field names
    nb,             \* numericalValues: rows x fields x channels
    pos,            \* nb_iter: index (1-based) of the next row it yields
    pc,             \* position inside notebook(): scan / propagate / done / raised
    sweep_entries,  \* OrderedDict sweep number -> entry, as a sequence of records
    tp_entries,     \* the local list tp_entries
    swi,            \* index of the sweep the second loop is at
    phase,          \* step of the second loop's body
    self_notebook,  \* self._notebook: "None" or "set"
    err,            \* the exception notebook() raised, "" when none
    row_class,      \* history: how each row index was consumed
    merged,         \* history: sweep_entries as it stood when the row scan ended
    \* ---- MiesNwb handle / MiesRecording.hdf_group ----
    hdf,            \* self._hdf: 0 for None, else the id of the h5py.File
    opened,         \* number of h5py.File objects created so far
    rec_group,      \* per recording: 0 for _hdf_group None, else the file id it came from
    rec_alive,      \* per recording: constructed or not
    last_read,      \* history: the last read through primary_hdf
    \* ---- one MiesRecording and what is derived from its notebook entry ----
    rnb,            \* notebook()[sweep][headstage]: field name -> value or None
    dt_ms,          \* IGORWaveScaling[1,0]: sample interval in ms, <<num, den>>
    meta,           \* self._meta after __init__
    rpc,            \* "new", "built", "raised"
    trace_data,     \* MiesTrace._data of the primary and the command trace
    out,            \* the last value returned by a property of the recording
    \* ---- test pulses ----
    tp_list,        \* what self._nwb.test_pulse_entries() returns
    device_id,      \* the recording's headstage
    inserted,       \* self._inserted_test_pulse: None or a PatchClampTestPulse
    nearest,        \* self._nearest_test_pulse: None or a MiesTestPulse
    ntp_calls,      \* number of nearest_test_pulse accesses so far
    \* ---- MiesNwb: the attributes behind test_pulse_entries() ----
    self_tp_notebook, \* self._tp_notebook: whether the attribute exists, its value
    self_tp_entries,  \* self._tp_entries: "unset" (no attribute), "None" or "list"
    reads,          \* number of times numericalValues was read into an array
    tpe_out         \* the outcome of the last test_pulse_entries() call

nbvars  == <<nb_keys, nb, pos, pc, sweep_entries, tp_entries, swi, phase,
             self_notebook, err, row_class, merged>>
hvars   == <<hdf, opened, rec_group, rec_alive, last_read>>
rvars   == <<rnb, dt_ms, meta, rpc, trace_data, out>>
tpvars  == <<tp_list, device_id, inserted, nearest, ntp_calls>>
evars   == <<self_tp_notebook, self_tp_entries, reads, tpe_out>>
vars    == <<nbvars, hvars, rvars, tpvars, evars>>

-----------------------------------------------------------------------------
(* Values *)

NaN      == [t |-> "nan",  v |-> 0, e |-> 0]
Inf      == [t |-> "inf",  v |-> 0, e |-> 0]
None     == [t |-> "none", v |-> 0, e |-> 0]
Num(x)   == [t |-> "num",  v |-> x, e |-> 0]
Dec(x, k) == [t |-> "num", v |-> x, e |-> k]

\* np.isnan / np.isfinite
isnan(x)    == x.t = "nan"
isfinite(x) == x.t = "num"

RECURSIVE Pow10(_)
Pow10(k) == IF k <= 0 THEN 1 ELSE 10 * Pow10(k - 1)

\* Python's int(a / b) for integers a, b with b > 0: truncation toward zero
TruncDiv(a, b) == IF a >= 0 THEN a \div b ELSE -((-a) \div b)

\* Python's int(x) of a finite float
int(x) == IF x.e >= 0 THEN x.v * Pow10(x.e) ELSE TruncDiv(x.v, Pow10(-x.e))

\* x * 1e<k> for a float x (nan and inf stay what they are)
Times10(x, k) == IF x.t = "num" THEN [x EXCEPT !.e = @ + k] ELSE x

\* x == c for a Python value x (None and nan compare unequal to every number)
EqNum(x, c) == x.t = "num" /\ x.v * Pow10(x.e) = c * Pow10(-x.e)

-----------------------------------------------------------------------------
(* MiesNwb.notebook(): the table *)

\* entry[:, 8] is the "global" column; channels 0..7 are headstages
GlobalChan == 8
Chans      == 0 .. GlobalChan

\* entry[:4]: the leading fields that are copied from channel 0
FirstFields == 4

\* The field names of a file written by a current MIES, and of an older file
\* that has no EntrySourceType field.
KeysNew == << "SweepNum", "TimeStamp", "TimeStampSinceIgorEpochUTC",
              "EntrySourceType", "TP Peak Resistance", "TP Pulse Duration",
              "Async AD 0", "V-Clamp Holding Level" >>
KeysOld == << "SweepNum", "TimeStamp", "TimeStampSinceIgorEpochUTC",
              "Set Sweep Count", "TP Peak Resistance", "TP Pulse Duration",
              "Async AD 0", "V-Clamp Holding Level" >>

\* nb_fields.get(k, None): the 1-based index of field k, 0 for None
nb_fields(keys, k) ==
    IF \E j \in 1 .. Len(keys) : keys[j] = k
    THEN CHOOSE j \in 1 .. Len(keys) : keys[j] = k
    ELSE 0

\* k.startswith('Async AD ')
startswith_AsyncAD(k) == k \in {"Async AD 0", "Async AD 1", "Async AD 2", "Async AD 3"}

\* any(np.isfinite(a)) over the channels of one field
any_isfinite(a) == \E c \in Chans : isfinite(a[c])

\* mask = ~np.isnan(top); base[mask] = top[mask]
Overlay_KeepFirst(base, top) ==
    [f \in DOMAIN base |-> [c \in Chans |->
        IF isnan(base[f][c]) THEN top[f][c] ELSE base[f][c]]]

Overlay_CopyAll(base, top) == top

Overlay(base, top) ==
    [f \in DOMAIN base |-> [c \in Chans |->
        IF ~isnan(top[f][c]) THEN top[f][c] ELSE base[f][c]]]

\* the index in sweep_entries of sweep number k, 0 when k is not in it
SweepIndex(se, k) ==
    IF \E j \in 1 .. Len(se) : se[j].swid = k
    THEN CHOOSE j \in 1 .. Len(se) : se[j].swid = k
    ELSE 0

\* lines 93-97: the first record of a sweep is copied, later ones are overlaid
MergeSweep(se, k, rec) ==
    IF SweepIndex(se, k) = 0
    THEN Append(se, [swid |-> k, entry |-> rec, meta |-> <<>>])
    ELSE [se EXCEPT ![SweepIndex(se, k)].entry = Overlay(@, rec)]

\* lines 101-102: mask = ~np.isnan(entry[:,8]); entry[mask] = entry[:,8:9][mask]
GlobalOverride_FillOnly(entry) ==
    [f \in DOMAIN entry |-> [c \in Chans |->
        IF ~isnan(entry[f][GlobalChan]) /\ isnan(entry[f][c])
        THEN entry[f][GlobalChan] ELSE entry[f][c]]]

GlobalOverride(entry) ==
    [f \in DOMAIN entry |->
        IF ~isnan(entry[f][GlobalChan])
        THEN [c \in Chans |-> entry[f][GlobalChan]]
        ELSE entry[f]]

\* line 105: entry[:4] = entry[:4, 0:1]
BroadcastFirst(entry) ==
    [f \in DOMAIN entry |->
        IF f <= FirstFields THEN [c \in Chans |-> entry[f][0]] ELSE entry[f]]

\* lines 110-113: entry[i] = entry[i, 0] for the 'Async AD ' fields
BroadcastAsync(entry, keys) ==
    [f \in DOMAIN entry |->
        IF startswith_AsyncAD(keys[f]) THEN [c \in Chans |-> entry[f][0]]
        ELSE entry[f]]

\* lines 116-119: one dict per channel, nan turned into None
ToMeta(entry, keys) ==
    [c \in Chans |->
        [k \in {keys[j] : j \in 1 .. Len(keys)} |->
            IF isnan(entry[nb_fields(keys, k)][c]) THEN None
            ELSE entry[nb_fields(keys, k)][c]]]

-----------------------------------------------------------------------------
(* MiesNwb.notebook(): the row scan, lines 54-97 *)

\* line 64: the row carries a usable EntrySourceType
has_source_type(keys, rec) ==
    /\ nb_fields(keys, "EntrySourceType") # 0
    /\ ~isnan(rec[nb_fields(keys, "EntrySourceType")][0])

\* lines 69-76 (i is 1-based here): this row and the next look like a test
\* pulse block of a file without EntrySourceType
is_tp_pair(keys, table, i) ==
    /\ ~has_source_type(keys, table[i])
    /\ i < Len(table)
    /\ any_isfinite(table[i][nb_fields(keys, "TP Peak Resistance")])
    /\ any_isfinite(table[i + 1][nb_fields(keys, "TP Pulse Duration")])

\* lines 64-68, 78
is_tp_record(keys, table, i) ==
    IF has_source_type(keys, table[i])
    THEN ~EqNum(table[i][nb_fields(keys, "EntrySourceType")][0], 0)
    ELSE is_tp_pair(keys, table, i)

\* lines 64-66, 69, 79-80
is_sweep_record(keys, table, i) ==
    IF has_source_type(keys, table[i])
    THEN EqNum(table[i][nb_fields(keys, "EntrySourceType")][0], 0)
    ELSE /\ i < Len(table)
         /\ ~is_tp_pair(keys, table, i)
         /\ isfinite(table[i][1][0])

\* the rows nb_iter has handed out once line 77 has run: the for statement took
\* row i, and line 77 takes one more when the pair was detected
AfterLookahead(keys, table, i) ==
    i + 1 + (IF is_tp_pair(keys, table, i) THEN 1 ELSE 0)

Mark(rc, from, to, what) ==
    [j \in DOMAIN rc |-> IF from <= j /\ j <= to THEN what ELSE rc[j]]

\* the calls of notebook() that read the table again after an earlier call
\* raised are followed up to this many reads
MaxReads == 2

\* notebook() is entered: lines 39-54; line 50 reads numericalValues
notebook_Begin ==
    /\ pc \in {"idle", "done", "raised"}
    /\ self_notebook = "None" => reads < MaxReads
    /\ IF self_notebook = "None"
       THEN /\ pc' = "scan"
            /\ reads' = reads + 1
            /\ pos' = 1
            /\ sweep_entries' = <<>>
            /\ tp_entries' = <<>>
            /\ swi' = 1
            /\ phase' = "global"
            /\ err' = ""
            /\ row_class' = [j \in 1 .. Len(nb) |-> "unseen"]
            /\ merged' = <<>>
       ELSE /\ pc' = "done"
            /\ UNCHANGED <<pos, sweep_entries, tp_entries, swi, phase, err,
                           row_class, merged, reads>>
    /\ UNCHANGED <<nb_keys, nb, self_notebook, hvars, rvars, tpvars,
                   self_tp_notebook, self_tp_entries, tpe_out>>

\* one pass of the for loop of line 55
notebook_ScanRow ==
    /\ pc = "scan"
    /\ pos <= Len(nb)
    /\ LET i    == pos
           rec  == nb[i]
           it   == AfterLookahead(nb_keys, nb, i)
           k    == int(rec[1][0])
       IN  IF is_tp_record(nb_keys, nb, i)
           THEN IF it > Len(nb)
                THEN \* line 84: nb_iter.next() on the exhausted iterator
                     /\ pc' = "raised"
                     /\ err' = "StopIteration"
                     /\ pos' = it
                     /\ row_class' = Mark(Mark(row_class, i, i, "failed"),
                                          i + 1, it - 1, "skipped")
                     /\ UNCHANGED <<sweep_entries, tp_entries>>
                ELSE \* lines 83-88
                     /\ pos' = it + 1
                     /\ tp_entries' = Append(tp_entries, Overlay(rec, nb[i + 1]))
                     /\ row_class' = Mark(Mark(Mark(row_class, i, i, "tp"),
                                               i + 1, i + 1, "tp2"),
                                          i + 2, it, "skipped")
                     /\ UNCHANGED <<pc, err, sweep_entries>>
           ELSE IF is_sweep_record(nb_keys, nb, i)
           THEN IF ~isfinite(rec[1][0])
                THEN \* line 91: int(nan) or int(inf)
                     /\ pc' = "raised"
                     /\ err' = IF isnan(rec[1][0]) THEN "ValueError"
                               ELSE "OverflowError"
                     /\ pos' = it
                     /\ row_class' = Mark(row_class, i, i, "failed")
                     /\ UNCHANGED <<sweep_entries, tp_entries>>
                ELSE \* lines 91-97
                     /\ pos' = it
                     /\ sweep_entries' = MergeSweep(sweep_entries, k, rec)
                     /\ row_class' = Mark(row_class, i, i, "sweep")
                     /\ UNCHANGED <<pc, err, tp_entries>>
           ELSE /\ pos' = it
                /\ row_class' = Mark(row_class, i, i, "ignored")
                /\ UNCHANGED <<pc, err, sweep_entries, tp_entries>>
    /\ UNCHANGED <<nb_keys, nb, swi, phase, self_notebook, merged,
                   hvars, rvars, tpvars, evars>>

\* the for loop of line 55 ends and the loop of line 99 starts
notebook_EndScan ==
    /\ pc = "scan"
    /\ pos > Len(nb)
    /\ pc' = "propagate"
    /\ swi' = 1
    /\ phase' = "global"
    /\ merged' = sweep_entries
    /\ UNCHANGED <<nb_keys, nb, pos, sweep_entries, tp_entries, self_notebook,
                   err, row_class, hvars, rvars, tpvars, evars>>

-----------------------------------------------------------------------------
(* MiesNwb.notebook(): the loop over the sweeps, lines 99-120 *)

InSweepLoop == pc = "propagate" /\ swi <= Len(sweep_entries)

\* lines 101-102
notebook_GlobalOverride ==
    /\ InSweepLoop /\ phase = "global"
    /\ sweep_entries' = [sweep_entries EXCEPT ![swi].entry = GlobalOverride(@)]
    /\ phase' = "first"
    /\ UNCHANGED <<nb_keys, nb, pos, pc, tp_entries, swi, self_notebook, err,
                   row_class, merged, hvars, rvars, tpvars, evars>>

\* line 105
notebook_BroadcastFirst ==
    /\ InSweepLoop /\ phase = "first"
    /\ sweep_entries' = [sweep_entries EXCEPT ![swi].entry = BroadcastFirst(@)]
    /\ phase' = "async"
    /\ UNCHANGED <<nb_keys, nb, pos, pc, tp_entries, swi, self_notebook, err,
                   row_class, merged, hvars, rvars, tpvars, evars>>

\* lines 110-113
notebook_BroadcastAsync ==
    /\ InSweepLoop /\ phase = "async"
    /\ sweep_entries' =
           [sweep_entries EXCEPT ![swi].entry = BroadcastAsync(@, nb_keys)]
    /\ phase' = "meta"
    /\ UNCHANGED <<nb_keys, nb, pos, pc, tp_entries, swi, self_notebook, err,
                   row_class, merged, hvars, rvars, tpvars, evars>>

\* lines 116-120
notebook_ToMeta ==
    /\ InSweepLoop /\ phase = "meta"
    /\ sweep_entries' =
           [sweep_entries EXCEPT ![swi].meta = ToMeta(sweep_entries[swi].entry, nb_keys)]
    /\ phase' = "global"
    /\ swi' = swi + 1
    /\ UNCHANGED <<nb_keys, nb, pos, pc, tp_entries, self_notebook, err,
                   row_class, merged, hvars, rvars, tpvars, evars>>

\* lines 122-126
notebook_Return ==
    /\ pc = "propagate"
    /\ swi > Len(sweep_entries)
    /\ self_notebook' = "set"
    /\ self_tp_notebook' = [set |-> TRUE, value |-> tp_entries]
    /\ self_tp_entries' = [state |-> "None", value |-> <<>>]
    /\ pc' = "done"
    /\ UNCHANGED <<nb_keys, nb, pos, sweep_entries, tp_entries, swi, phase, err,
                   row_class, merged, hvars, rvars, tpvars, reads, tpe_out>>

NotebookNext ==
    \/ notebook_Begin
    \/ notebook_ScanRow
    \/ notebook_EndScan
    \/ notebook_GlobalOverride
    \/ notebook_BroadcastFirst
    \/ notebook_BroadcastAsync
    \/ notebook_ToMeta
    \/ notebook_Return

-----------------------------------------------------------------------------
(* The tables the notebook specifications start from *)

MaxRows      == 3
MaxMergeRows == 2

\* the channels that hold data in the generated rows: channel 0, one other
\* headstage and the global column
DataChans == {0, 3, GlobalChan}

\* the fields that carry the data pattern of a row: an identity field, an
\* 'Async AD ' field and an ordinary per-channel field
DataFields == {2, 7, 8}

\* Row i of a table.  p.sn is SweepNum (channel 0), p.est the value at field 4
\* (channel 0), p.peak 'TP Peak Resistance' (headstage 3), p.dur 'TP Pulse
\* Duration' (global column); the data fields hold a value that names the row
\* and the channel in the channels of p.pat.
MkRow(i, p) ==
    [f \in 1 .. Len(KeysNew) |-> [c \in Chans |->
        IF f = 1 /\ c = 0 THEN p.sn
        ELSE IF f = 4 /\ c = 0 THEN p.est
        ELSE IF f = 5 /\ c = 3 THEN p.peak
        ELSE IF f = 6 /\ c = GlobalChan THEN p.dur
        ELSE IF f \in DataFields /\ c \in p.pat THEN Num(10 * i + c)
        ELSE NaN]]

MkTable(ps) == [i \in DOMAIN ps |-> MkRow(i, ps[i])]

\* rows that exercise the classification of lines 59-80
ScanParams(keys) ==
    [sn   : IF keys = KeysNew THEN {NaN, Inf, Num(1)}
            ELSE {NaN, Inf, Dec(5, -1), Num(1)},
     est  : IF keys = KeysNew THEN {NaN, Num(0), Num(1)} ELSE {NaN},
     peak : IF keys = KeysNew THEN {NaN, Num(7)} ELSE {NaN, Inf, Num(7)},
     dur  : {NaN, Num(9)},
     pat  : {{0}}]

\* sweep rows that exercise the merge and the propagation of lines 90-120
MergeParams(keys) ==
    [sn   : {Dec(5, -1), Num(1)},
     est  : IF keys = KeysNew THEN {Num(0)} ELSE {NaN},
     peak : {NaN},
     dur  : {NaN},
     pat  : SUBSET DataChans]

NoCall == [called |-> FALSE, raised |-> "", value |-> <<>>,
           returned |-> FALSE, first |-> <<>>]

\* the attributes of a MiesNwb after __init__ (lines 15-22): _notebook is None,
\* _tp_notebook and _tp_entries are not assigned
EntriesStart ==
    /\ self_tp_notebook = [set |-> FALSE, value |-> <<>>]
    /\ self_tp_entries = [state |-> "unset", value |-> <<>>]
    /\ reads = 0
    /\ tpe_out = NoCall

NotebookStart ==
    /\ pos = 1
    /\ pc = "idle"
    /\ sweep_entries = <<>>
    /\ tp_entries = <<>>
    /\ swi = 1
    /\ phase = "global"
    /\ self_notebook = "None"
    /\ err = ""
    /\ row_class = [j \in 1 .. Len(nb) |-> "unseen"]
    /\ merged = <<>>
    /\ EntriesStart

-----------------------------------------------------------------------------
(* MiesNwb: the store handle; MiesRecording: the cached hdf_group *)

MaxOpens == 4
NumRecs  == 2
Recs     == 1 .. NumRecs

\* MiesNwb.hdf (lines 24-28): the handle, opened first when self._hdf is None
\* (line 151 creates a new h5py.File).  h is the handle returned, n the number
\* of files created after the call.
hdf_property ==
    IF hdf = 0 THEN [h |-> opened + 1, n |-> opened + 1]
    ELSE [h |-> hdf, n |-> opened]

\* MiesRecording.hdf_group (lines 295-299): the cached group when there is one,
\* else a group of the handle MiesNwb.hdf returns.  g is the file the returned
\* group belongs to, h and n the handle and the file count after the call.
hdf_group(r) ==
    IF rec_group[r] # 0
    THEN [g |-> rec_group[r], h |-> hdf, n |-> opened]
    ELSE [g |-> hdf_property.h, h |-> hdf_property.h, n |-> hdf_property.n]

CanOpen == hdf # 0 \/ opened < MaxOpens

\* MiesNwb.open() (lines 147-154)
Nwb_open ==
    /\ CanOpen
    /\ hdf' = hdf_property.h
    /\ opened' = hdf_property.n
    /\ UNCHANGED <<rec_group, rec_alive, last_read, nbvars, evars, rvars, tpvars>>

\* MiesNwb.close() (lines 143-145): self.hdf.close(); self._hdf = None
Nwb_close ==
    /\ CanOpen
    /\ hdf' = 0
    /\ opened' = hdf_property.n
    /\ UNCHANGED <<rec_group, rec_alive, last_read, nbvars, evars, rvars, tpvars>>

\* MiesRecording.__init__ (lines 243-251): line 251 reads self.hdf_group
Recording_init(r) ==
    /\ ~rec_alive[r]
    /\ CanOpen
    /\ rec_alive' = [rec_alive EXCEPT ![r] = TRUE]
    /\ rec_group' = [rec_group EXCEPT ![r] = hdf_property.h]
    /\ hdf' = hdf_property.h
    /\ opened' = hdf_property.n
    /\ UNCHANGED <<last_read, nbvars, evars, rvars, tpvars>>

\* MiesRecording.primary_hdf (lines 305-309): self.hdf_group['data'].
\* last_read keeps the file the group read from belongs to, and the handle
\* that was open when it was read.
Recording_primary_hdf(r) ==
    /\ rec_alive[r]
    /\ rec_group[r] # 0 \/ CanOpen
    /\ rec_group' = [rec_group EXCEPT ![r] = hdf_group(r).g]
    /\ hdf' = hdf_group(r).h
    /\ opened' = hdf_group(r).n
    /\ last_read' = [rec |-> r, file |-> hdf_group(r).g, open |-> hdf_group(r).h]
    /\ UNCHANGED <<rec_alive, nbvars, evars, rvars, tpvars>>

\* MiesNwb.__getstate__ (lines 193-197) and MiesRecording.__getstate__ (lines
\* 411-414): the program goes on with the unpickled copy of the object graph,
\* whose file has no handle and whose recordings have no cached group.
Pickle_roundtrip ==
    /\ hdf # 0 \/ \E r \in Recs : rec_group[r] # 0
    /\ hdf' = 0
    /\ rec_group' = [r \in Recs |-> 0]
    /\ UNCHANGED <<opened, rec_alive, last_read, nbvars, evars, rvars, tpvars>>

\* MiesNwb.__init__ (lines 15-22) has run: the file is open
HandleStart ==
    /\ hdf = 1
    /\ opened = 1
    /\ rec_group = [r \in Recs |-> 0]
    /\ rec_alive = [r \in Recs |-> FALSE]
    /\ last_read = [rec |-> 0, file |-> 0, open |-> 0]

HandleNext ==
    \/ Nwb_open
    \/ Nwb_close
    \/ \E r \in Recs : Recording_init(r)
    \/ \E r \in Recs : Recording_primary_hdf(r)
    \/ Pickle_roundtrip

-----------------------------------------------------------------------------
(* MiesRecording: the metadata of lines 257-279 *)

\* datetime(1970,1,1) - datetime(1904,1,1) of line 183, in seconds
EpochOffset == 2082844800

\* MiesNwb.igorpro_date (lines 178-184).  A datetime is kept as the number of
\* seconds since 1970-01-01; timestamps are whole seconds.
igorpro_date(timestamp) == Num(int(timestamp) - EpochOffset)

\* lines 258-265, 276-277: None if x is None else x * 1e<k>
ScaledOrNone(x, k) == IF x = None THEN None ELSE Times10(x, k)

\* lines 271-274
bridge_balance(n) ==
    IF EqNum(n["Bridge Bal Enable"], 0) \/ n["Bridge Bal Value"] = None
    THEN Num(0)
    ELSE Times10(n["Bridge Bal Value"], 6)

\* MiesRecording.clamp_mode (lines 301-303) and lines 267-270
clamp_mode(n) == IF EqNum(n["Clamp Mode"], 0) THEN "vc" ELSE "ic"

\* self._meta as lines 257-279 leave it; bridge_balance is set for "ic" only
RecordingMeta(n) ==
    [holding_potential |-> ScaledOrNone(n["V-Clamp Holding Level"], -3),
     holding_current   |-> ScaledOrNone(n["I-Clamp Holding Level"], -12),
     notebook          |-> n,
     clamp_mode        |-> clamp_mode(n),
     bridge_balance    |-> IF clamp_mode(n) = "vc" THEN None ELSE bridge_balance(n),
     lpf_cutoff        |-> n["LPF Cutoff"],
     pipette_offset    |-> ScaledOrNone(n["Pipette Offset"], -3),
     start_time        |-> igorpro_date(n["TimeStamp"])]

NoMeta == [raised |-> ""]

\* MiesRecording.__init__, lines 257-282; line 278 raises on a None TimeStamp
Recording_meta ==
    /\ rpc = "new"
    /\ IF rnb["TimeStamp"] = None
       THEN /\ rpc' = "raised"
            /\ meta' = [raised |-> "TypeError"]
       ELSE /\ rpc' = "built"
            /\ meta' = RecordingMeta(rnb)
    /\ UNCHANGED <<rnb, dt_ms, trace_data, out, nbvars, evars, hvars, tpvars>>

-----------------------------------------------------------------------------
(* MiesTrace.data, lines 223-237 *)

\* the raw samples of the file: np.array(rec.primary_hdf), np.array(rec.command_hdf)
primary_hdf == << Num(-3), Num(12) >>
command_hdf == << Num(0), Num(40) >>

\* a + b for two numbers: the sum at the smaller exponent
Add(a, b) ==
    IF a.e <= b.e
    THEN [t |-> "num", v |-> a.v + b.v * Pow10(b.e - a.e), e |-> a.e]
    ELSE [t |-> "num", v |-> a.v * Pow10(a.e - b.e) + b.v, e |-> b.e]

\* PatchClampRecording.holding_potential / holding_current: the values
\* __init__ stored in meta
holding_potential(m) == m.holding_potential
holding_current(m)   == m.holding_current

\* lines 228-230
PrimaryData(m) ==
    [j \in DOMAIN primary_hdf |->
        Times10(primary_hdf[j], IF clamp_mode(m.notebook) = "vc" THEN -12 ELSE -3)]

\* line 235
CommandOffset(m) ==
    IF clamp_mode(m.notebook) = "vc" THEN holding_potential(m)
    ELSE holding_current(m)

\* lines 231-236: array * scale + offset; an array plus None is a TypeError
CommandData(m) ==
    IF CommandOffset(m) = None THEN <<>>
    ELSE [j \in DOMAIN command_hdf |->
            Add(Times10(command_hdf[j],
                        IF clamp_mode(m.notebook) = "vc" THEN -3 ELSE -12),
                CommandOffset(m))]

NoData == [state |-> "None", data |-> <<>>]

\* MiesTrace.data of the 'primary' channel
Trace_data_primary ==
    /\ rpc = "built"
    /\ trace_data' =
          IF trace_data.primary.state = "None"
          THEN [trace_data EXCEPT !.primary = [state |-> "set", data |-> PrimaryData(meta)]]
          ELSE trace_data
    /\ out' = [kind |-> "primary", raised |-> "", value |-> trace_data'.primary.data]
    /\ UNCHANGED <<rnb, dt_ms, meta, rpc, nbvars, evars, hvars, tpvars>>

\* MiesTrace.data of the 'command' channel
Trace_data_command ==
    /\ rpc = "built"
    /\ IF trace_data.command.state = "None" /\ CommandOffset(meta) = None
       THEN /\ out' = [kind |-> "command", raised |-> "TypeError", value |-> <<>>]
            /\ UNCHANGED trace_data
       ELSE /\ trace_data' =
                  IF trace_data.command.state = "None"
                  THEN [trace_data EXCEPT !.command = [state |-> "set", data |-> CommandData(meta)]]
                  ELSE trace_data
            /\ out' = [kind |-> "command", raised |-> "", value |-> trace_data'.command.data]
    /\ UNCHANGED <<rnb, dt_ms, meta, rpc, nbvars, evars, hvars, tpvars>>

-----------------------------------------------------------------------------
(* MiesRecording.baseline_regions, lines 373-390 *)

\* a number v * 10^e as the fraction RN / RD
RN(x) == IF x.e >= 0 THEN x.v * Pow10(x.e) ELSE x.v
RD(x) == IF x.e >= 0 THEN 1 ELSE Pow10(-x.e)

\* int(n / d) for integers n, d with d # 0
IntQuot(n, d) == IF d > 0 THEN TruncDiv(n, d) ELSE TruncDiv(-n, -d)

\* line 384, first index: int(start / dt), start = auto / 1000. seconds and
\* dt = dt_ms / 1000. seconds
OnsetStart(auto, dt) == IntQuot(RN(auto) * dt.den, RD(auto) * dt.num)

\* the stop index (onset_auto + onset_user) / dt
OnsetStop_Sum(auto, user, dt) ==
    IntQuot((RN(auto) * RD(user) + RN(user) * RD(auto)) * dt.den,
            RD(auto) * RD(user) * dt.num)

\* line 384, second index: int(start + dur / dt), the sum of start in seconds
\* and of the sample count dur / dt
OnsetStop(auto, user, dt) ==
    IntQuot(RN(auto) * RD(user) * dt.num + 1000 * RD(auto) * RN(user) * dt.den,
            1000 * RD(auto) * RD(user) * dt.num)

\* line 388: -int(dur / dt)
TrailingStart(term, dt) == -IntQuot(RN(term) * dt.den, RD(term) * dt.num)

\* the list baseline_regions returns (None / 1000. is a TypeError)
baseline_regions(n, dt) ==
    (IF n["Delay onset user"].v > 0
     THEN << [start |-> Num(OnsetStart(n["Delay onset auto"], dt)),
              stop  |-> Num(OnsetStop(n["Delay onset auto"], n["Delay onset user"], dt))] >>
     ELSE <<>>)
    \o
    (IF n["Delay termination"].v > 0
     THEN << [start |-> Num(TrailingStart(n["Delay termination"], dt)), stop |-> None] >>
     ELSE <<>>)

Recording_baseline_regions ==
    /\ rpc = "built"
    /\ out' = IF \E k \in {"Delay onset auto", "Delay onset user", "Delay termination"} :
                    rnb[k] = None
              THEN [kind |-> "baseline_regions", raised |-> "TypeError", value |-> <<>>]
              ELSE [kind |-> "baseline_regions", raised |-> "",
                    value |-> baseline_regions(meta.notebook, dt_ms)]
    /\ UNCHANGED <<rnb, dt_ms, meta, rpc, trace_data, nbvars, evars, hvars, tpvars>>

-----------------------------------------------------------------------------
(* MiesNwb.test_pulse_entries and the test pulses of a recording *)

KeysTP == << "SweepNum", "TimeStamp", "TimeStampSinceIgorEpochUTC",
             "EntrySourceType", "TP Baseline Vm", "TP Baseline pA",
             "TP Peak Resistance", "TP Steady State Resistance",
             "TP Baseline Fraction", "TP Amplitude VC", "TP Amplitude IC",
             "TP Pulse Duration" >>

Headstages == 0 .. GlobalChan - 1

\* lines 205-209: one entry of test_pulse_entries() from one record of
\* self._tp_notebook; the measured fields keep rec[i, :8], the stimulus
\* fields rec[i, 8]
test_pulse_entry(keys, rec) ==
    [timestamp |-> igorpro_date(rec[2][0]),
     vm     |-> [c \in Headstages |-> rec[nb_fields(keys, "TP Baseline Vm")][c]],
     pa     |-> [c \in Headstages |-> rec[nb_fields(keys, "TP Baseline pA")][c]],
     peak   |-> [c \in Headstages |-> rec[nb_fields(keys, "TP Peak Resistance")][c]],
     steady |-> [c \in Headstages |-> rec[nb_fields(keys, "TP Steady State Resistance")][c]],
     stim   |-> [k \in {"TP Baseline Fraction", "TP Amplitude VC", "TP Amplitude IC",
                        "TP Pulse Duration"} |-> rec[nb_fields(keys, k)][GlobalChan]]]

\* lines 204-211
test_pulse_entries(keys, tp_notebook) ==
    [j \in DOMAIN tp_notebook |-> test_pulse_entry(keys, tp_notebook[j])]

\* the exception of datetime.utcfromtimestamp (line 184) on a timestamp that
\* is not finite: ValueError on nan; on inf it depends on the build
DateErrors(timestamp) ==
    IF isnan(timestamp) THEN {"ValueError"} ELSE {"ValueError", "OverflowError"}

\* the outcome of a test_pulse_entries() call; first keeps what the first call
\* that returned gave back
Raise(o, e) == [o EXCEPT !.called = TRUE, !.raised = e, !.value = <<>>]
Return(o, v) ==
    [called |-> TRUE, raised |-> "", value |-> v, returned |-> TRUE,
     first |-> IF o.returned THEN o.first ELSE v]

\* MiesNwb.test_pulse_entries(), lines 199-211.  Line 200 reads
\* self._tp_entries, which only line 125 of notebook() assigns; line 201 stores
\* the list before the loop fills it, so a record whose timestamp
\* igorpro_date cannot convert leaves the entries made so far in place.
MiesNwb_test_pulse_entries ==
    /\ pc \in {"idle", "done", "raised"}
    /\ IF self_tp_entries.state = "unset"
       THEN /\ tpe_out' = Raise(tpe_out, "AttributeError")
            /\ UNCHANGED self_tp_entries
       ELSE IF self_tp_entries.state = "list"
       THEN /\ tpe_out' = Return(tpe_out, self_tp_entries.value)
            /\ UNCHANGED self_tp_entries
       ELSE LET recs == self_tp_notebook.value
                bad  == {j \in DOMAIN recs : ~isfinite(recs[j][2][0])}
            IN  IF bad = {}
                THEN /\ self_tp_entries' =
                            [state |-> "list",
                             value |-> test_pulse_entries(nb_keys, recs)]
                     /\ tpe_out' = Return(tpe_out, self_tp_entries'.value)
                ELSE LET j0 == CHOOSE j \in bad : \A k \in bad : j <= k
                     IN  /\ self_tp_entries' =
                                [state |-> "list",
                                 value |-> test_pulse_entries(
                                               nb_keys, SubSeq(recs, 1, j0 - 1))]
                         /\ \E e \in DateErrors(recs[j0][2][0]) :
                                tpe_out' = Raise(tpe_out, e)
    /\ UNCHANGED <<nbvars, hvars, rvars, tpvars, self_tp_notebook, reads>>

\* |a - b| of two datetimes, in seconds
AbsSeconds(a, b) == IF a.v >= b.v THEN a.v - b.v ELSE b.v - a.v

\* lines 328-336: the index of the entry the loop leaves in `nearest`, 0 when
\* the list is empty.  best is the index held so far, j the next one examined.
RECURSIVE NearestFrom_LastWins(_, _, _, _)
NearestFrom_LastWins(entries, start, best, j) ==
    IF j > Len(entries) THEN best
    ELSE IF best = 0 \/ AbsSeconds(entries[j].timestamp, start)
                          <= AbsSeconds(entries[best].timestamp, start)
         THEN NearestFrom_LastWins(entries, start, j, j + 1)
         ELSE NearestFrom_LastWins(entries, start, best, j + 1)

RECURSIVE NearestFrom(_, _, _, _)
NearestFrom(entries, start, best, j) ==
    IF j > Len(entries) THEN best
    ELSE IF best = 0 \/ AbsSeconds(entries[j].timestamp, start)
                          < AbsSeconds(entries[best].timestamp, start)
         THEN NearestFrom(entries, start, j, j + 1)
         ELSE NearestFrom(entries, start, best, j + 1)

\* MiesTestPulse.__init__ (lines 418-435): the entry restricted to the
\* recording's channel, and the clamp mode read off 'TP Baseline Vm'
TestPulseMode(e, chan) == IF isnan(e.vm[chan]) THEN "vc" ELSE "ic"

MiesTestPulse(j, e, chan) ==
    [kind |-> "MiesTestPulse", index |-> j,
     nb_entry |-> [timestamp |-> e.timestamp, vm |-> e.vm[chan], pa |-> e.pa[chan],
                   peak |-> e.peak[chan], steady |-> e.steady[chan]],
     clamp_mode |-> TestPulseMode(e, chan),
     start_time |-> e.timestamp]

NoPulse == [kind |-> "None"]

\* lines 441-451
access_resistance(tp) ==
    IF tp.clamp_mode = "vc" THEN Times10(tp.nb_entry.peak, 6) ELSE None

\* lines 453-457
input_resistance(tp) == Times10(tp.nb_entry.steady, 6)

\* lines 471-479
baseline_potential(tp) ==
    IF tp.clamp_mode = "ic" THEN Times10(tp.nb_entry.vm, -3) ELSE None

\* lines 481-489
baseline_current_Swapped(tp) ==
    IF tp.clamp_mode = "ic" THEN Times10(tp.nb_entry.pa, -12) ELSE None

baseline_current(tp) ==
    IF tp.clamp_mode = "vc" THEN Times10(tp.nb_entry.pa, -12) ELSE None

-----------------------------------------------------------------------------
(* MiesRecording: inserted_test_pulse and nearest_test_pulse *)

MaxCalls == 2

\* lines 342-344
has_inserted_test_pulse(m) == EqNum(m.notebook["TP Insert Checkbox"], 1)

\* lines 356-360: stop = int(tdur / dt) with pdur = P / 1000., bdur = pdur /
\* (1 - 2 F), tdur = pdur + 2 bdur, that is tdur = pdur (3 - 2 F) / (1 - 2 F)
InsertedStop(P, F, dt) ==
    IntQuot(RN(P) * (3 * RD(F) - 2 * RN(F)) * dt.den,
            RD(P) * (RD(F) - 2 * RN(F)) * dt.num)

\* what evaluating lines 356-362 raises, "" when nothing
InsertedRaises(n) ==
    IF n["TP Pulse Duration"] = None \/ n["TP Baseline Fraction"] = None
    THEN "TypeError"
    ELSE IF RD(n["TP Baseline Fraction"]) = 2 * RN(n["TP Baseline Fraction"])
    THEN "ZeroDivisionError"
    ELSE ""

\* the PatchClampTestPulse of line 362
InsertedTestPulse(n, dt) ==
    [kind |-> "PatchClampTestPulse",
     indices |-> << 0, InsertedStop(n["TP Pulse Duration"], n["TP Baseline Fraction"], dt) >>]

\* lines 328-340: the value _find_nearest_test_pulse leaves in
\* self._nearest_test_pulse
find_nearest_test_pulse(entries, m, chan) ==
    IF NearestFrom(entries, m.start_time, 0, 1) = 0 THEN NoPulse
    ELSE MiesTestPulse(NearestFrom(entries, m.start_time, 0, 1),
                       entries[NearestFrom(entries, m.start_time, 0, 1)], chan)

\* MiesRecording.nearest_test_pulse (lines 317-326), with the
\* inserted_test_pulse (lines 346-371) it returns for a recording that has one
Recording_nearest_test_pulse ==
    /\ rpc = "built"
    /\ ntp_calls < MaxCalls
    /\ ntp_calls' = ntp_calls + 1
    /\ IF has_inserted_test_pulse(meta)
       THEN IF inserted.kind = "None" /\ InsertedRaises(meta.notebook) # ""
            THEN /\ out' = [kind |-> "nearest_test_pulse",
                            raised |-> InsertedRaises(meta.notebook), value |-> NoPulse]
                 /\ UNCHANGED <<inserted, nearest>>
            ELSE /\ inserted' = IF inserted.kind = "None"
                                THEN InsertedTestPulse(meta.notebook, dt_ms)
                                ELSE inserted
                 /\ out' = [kind |-> "nearest_test_pulse", raised |-> "",
                            value |-> inserted']
                 /\ UNCHANGED nearest
       ELSE /\ nearest' = IF nearest.kind = "None"
                          THEN find_nearest_test_pulse(tp_list, meta, device_id)
                          ELSE nearest
            /\ out' = [kind |-> "nearest_test_pulse", raised |-> "", value |-> nearest']
            /\ UNCHANGED inserted
    /\ UNCHANGED <<tp_list, device_id, rnb, dt_ms, meta, rpc, trace_data, nbvars, evars, hvars>>

\* a property of the MiesTestPulse held in self._nearest_test_pulse is read
TestPulseRead(name, value) ==
    /\ nearest.kind = "MiesTestPulse"
    /\ out' = [kind |-> name, raised |-> "", value |-> value]
    /\ UNCHANGED <<tpvars, rnb, dt_ms, meta, rpc, trace_data, nbvars, evars, hvars>>

TestPulse_access_resistance  == TestPulseRead("access_resistance", access_resistance(nearest))
TestPulse_input_resistance   == TestPulseRead("input_resistance", input_resistance(nearest))
TestPulse_baseline_potential == TestPulseRead("baseline_potential", baseline_potential(nearest))
TestPulse_baseline_current   == TestPulseRead("baseline_current", baseline_current(nearest))

-----------------------------------------------------------------------------
(* The recordings the specifications start from *)

\* a notebook entry that sets every field the recording reads
BaseEntry ==
    [k \in {"V-Clamp Holding Level", "I-Clamp Holding Level", "Clamp Mode",
            "Bridge Bal Enable", "Bridge Bal Value", "LPF Cutoff",
            "Pipette Offset", "TimeStamp", "Delay onset auto",
            "Delay onset user", "Delay termination", "TP Insert Checkbox",
            "TP Pulse Duration", "TP Baseline Fraction"} |->
        CASE k = "V-Clamp Holding Level" -> Num(-70)
          [] k = "I-Clamp Holding Level" -> Num(50)
          [] k = "Clamp Mode"            -> Num(0)
          [] k = "Bridge Bal Enable"     -> Num(1)
          [] k = "Bridge Bal Value"      -> Num(12)
          [] k = "LPF Cutoff"            -> Num(10)
          [] k = "Pipette Offset"        -> Num(3)
          [] k = "TimeStamp"             -> Num(EpochOffset + 100)
          [] k = "Delay onset auto"      -> Num(0)
          [] k = "Delay onset user"      -> Num(0)
          [] k = "Delay termination"     -> Num(0)
          [] k = "TP Insert Checkbox"    -> Num(0)
          [] k = "TP Pulse Duration"     -> Num(10)
          [] k = "TP Baseline Fraction"  -> Dec(25, -2)]

\* BaseEntry with the fields of f set to f's values
With(f) == [k \in DOMAIN BaseEntry |-> IF k \in DOMAIN f THEN f[k] ELSE BaseEntry[k]]

\* the sample intervals, in ms: 0.1, 0.25 and 0.3
SampleIntervals == {[num |-> 1, den |-> 10], [num |-> 1, den |-> 4], [num |-> 3, den |-> 10]}

NoOut == [kind |-> "", raised |-> "", value |-> <<>>]

RecordingStart ==
    /\ meta = NoMeta
    /\ rpc = "new"
    /\ trace_data = [primary |-> NoData, command |-> NoData]
    /\ out = NoOut

TestPulseStart ==
    /\ inserted = NoPulse
    /\ nearest = NoPulse
    /\ ntp_calls = 0

\* the parts a specification does not exercise
NotebookIdle ==
    /\ nb_keys = KeysNew
    /\ nb = <<>>
    /\ NotebookStart

RecordingIdle ==
    /\ rnb = BaseEntry
    /\ dt_ms = [num |-> 1, den |-> 10]
    /\ RecordingStart

TestPulseIdle ==
    /\ tp_list = <<>>
    /\ device_id = 0
    /\ TestPulseStart

-----------------------------------------------------------------------------
(* Specifications *)

\* notebook() on tables whose rows vary in what their classification reads
Init ==
    /\ nb_keys \in {KeysNew, KeysOld}
    /\ \E n \in 1 .. MaxRows : \E ps \in [1 .. n -> ScanParams(nb_keys)] :
           nb = MkTable(ps)
    /\ NotebookStart
    /\ HandleStart /\ RecordingIdle /\ TestPulseIdle

Next == NotebookNext

Spec == Init /\ [][Next]_vars

\* notebook() on tables of sweep records whose rows vary in the data they hold
InitMerge ==
    /\ nb_keys \in {KeysNew, KeysOld}
    /\ \E n \in 1 .. MaxMergeRows : \E ps \in [1 .. n -> MergeParams(nb_keys)] :
           nb = MkTable(ps)
    /\ NotebookStart
    /\ HandleStart /\ RecordingIdle /\ TestPulseIdle

SpecMerge == InitMerge /\ [][NotebookNext]_vars

\* the store handle and the recordings' cached groups
InitHandle == NotebookIdle /\ HandleStart /\ RecordingIdle /\ TestPulseIdle

SpecHandle == InitHandle /\ [][HandleNext]_vars

\* one recording: its metadata, its traces and its baseline regions
InitRecording ==
    /\ \E vh \in {None, Num(-70)}, ih \in {None, Num(50)},
          cm \in {None, Num(0), Num(1)}, be \in {Num(0), Num(1)},
          bv \in {None, Num(12)}, po \in {None, Num(3)},
          ts \in {None, Num(EpochOffset + 100)},
          oa \in {Num(0), Num(10)}, ou \in {Num(-5), Num(0), Num(20)},
          te \in {None, Num(0), Num(30)} :
        rnb = With([k \in {"V-Clamp Holding Level", "I-Clamp Holding Level",
                           "Clamp Mode", "Bridge Bal Enable", "Bridge Bal Value",
                           "Pipette Offset", "TimeStamp", "Delay onset auto",
                           "Delay onset user", "Delay termination"} |->
                 CASE k = "V-Clamp Holding Level" -> vh
                   [] k = "I-Clamp Holding Level" -> ih
                   [] k = "Clamp Mode"            -> cm
                   [] k = "Bridge Bal Enable"     -> be
                   [] k = "Bridge Bal Value"      -> bv
                   [] k = "Pipette Offset"        -> po
                   [] k = "TimeStamp"             -> ts
                   [] k = "Delay onset auto"      -> oa
                   [] k = "Delay onset user"      -> ou
                   [] k = "Delay termination"     -> te])
    /\ dt_ms \in SampleIntervals
    /\ RecordingStart
    /\ NotebookIdle /\ HandleStart /\ TestPulseIdle

RecordingNext ==
    \/ Recording_meta
    \/ Trace_data_primary
    \/ Trace_data_command
    \/ Recording_baseline_regions

SpecRecording == InitRecording /\ [][RecordingNext]_vars

\* one recording and the standalone test pulses of its file
MaxPulses == 3

\* a record of self._tp_notebook: its time, d seconds from the recording's,
\* 'TP Baseline Vm' on headstage 3, and measurements that name their channel
MkPulse(p) ==
    [f \in 1 .. Len(KeysTP) |-> [c \in Chans |->
        IF f = 2 /\ c = 0 THEN Num(EpochOffset + 100 + p.d)
        ELSE IF f = 5 /\ c = 3 THEN p.vm
        ELSE IF f \in {6, 7, 8} /\ c \in Headstages THEN Num(10 * f + c)
        ELSE IF f \in 9 .. 12 /\ c = GlobalChan THEN Num(f)
        ELSE NaN]]

PulseParams == [d : {-5, -2, 2, 5}, vm : {NaN, Num(-65)}]

InitTestPulse ==
    /\ \E n \in 0 .. MaxPulses : \E ps \in [1 .. n -> PulseParams] :
           tp_list = test_pulse_entries(KeysTP, [j \in 1 .. n |-> MkPulse(ps[j])])
    /\ device_id \in {0, 3}
    /\ \E ins \in {Num(0), Num(1)} : rnb = With([k \in {"TP Insert Checkbox"} |-> ins])
    /\ dt_ms = [num |-> 1, den |-> 10]
    /\ RecordingStart /\ TestPulseStart
    /\ NotebookIdle /\ HandleStart

TestPulseNext ==
    \/ Recording_meta
    \/ Recording_nearest_test_pulse
    \/ TestPulse_access_resistance
    \/ TestPulse_input_resistance
    \/ TestPulse_baseline_potential
    \/ TestPulse_baseline_current

SpecTestPulse == InitTestPulse /\ [][TestPulseNext]_vars

\* notebook() and test_pulse_entries() called in any order on one MiesNwb
MaxEntryRows == 5

\* Row i of a table with the fields of KeysTP: a sweep row or the row of a test
\* pulse block, with or without a time stamp
MkEntryRow(i, p) ==
    [f \in 1 .. Len(KeysTP) |-> [c \in Chans |->
        IF f = 1 /\ c = 0 THEN Num(1)
        ELSE IF f = 2 /\ c = 0
             THEN (IF p.stamped THEN Num(EpochOffset + 100 + i) ELSE NaN)
        ELSE IF f = 4 /\ c = 0 THEN (IF p.tp THEN Num(1) ELSE Num(0))
        ELSE IF p.tp THEN MkPulse([d |-> i, vm |-> Num(-65)])[f][c]
        ELSE NaN]]

EntryParams == [tp : BOOLEAN, stamped : BOOLEAN]

InitEntries ==
    /\ nb_keys = KeysTP
    /\ \E n \in 1 .. MaxEntryRows : \E ps \in [1 .. n -> EntryParams] :
           nb = [i \in 1 .. n |-> MkEntryRow(i, ps[i])]
    /\ NotebookStart
    /\ HandleStart /\ RecordingIdle /\ TestPulseIdle

EntriesNext ==
    \/ notebook_Begin
    \/ notebook_ScanRow
    \/ notebook_EndScan
    \/ notebook_GlobalOverride
    \/ notebook_BroadcastFirst
    \/ notebook_BroadcastAsync
    \/ notebook_ToMeta
    \/ notebook_Return
    \/ MiesNwb_test_pulse_entries

SpecEntries == InitEntries /\ [][EntriesNext]_vars

-----------------------------------------------------------------------------
(* Properties of notebook() *)

ScanComplete == pc \in {"propagate", "done"}

\* the rows merged into sweep number k so far
SweepRows(k) ==
    {i \in 1 .. Len(nb) : row_class[i] = "sweep" /\ int(nb[i][1][0]) = k}

MaxOf(S) == CHOOSE i \in S : \A j \in S : j <= i
MinOf(S) == CHOOSE i \in S : \A j \in S : i <= j

HasMeta(s) == DOMAIN s.meta # {}

\* C1: in a table row without usable EntrySourceType, when row i has a finite
\* 'TP Peak Resistance' and row i+1 a finite 'TP Pulse Duration', scanning row
\* i consumes exactly rows i and i+1: the iterator goes on at row i+2, one
\* test pulse block is appended and no sweep record changes.
C1_PairConsumesExactlyTwoRows ==
    [][(pc = "scan" /\ pos <= Len(nb) /\ is_tp_pair(nb_keys, nb, pos))
         => /\ pos' = pos + 2
            /\ pc' = "scan"
            /\ Len(tp_entries') = Len(tp_entries) + 1
            /\ sweep_entries' = sweep_entries]_vars

\* C2: once the scan is complete, every row without usable EntrySourceType
\* that has a finite sweep number and is not one of the two rows of a detected
\* test pulse block has been merged into a sweep record, the last row included.
C2_FiniteSweepRowsAreSweepRecords ==
    ScanComplete =>
        \A i \in 1 .. Len(nb) :
            (/\ ~has_source_type(nb_keys, nb[i])
             /\ isfinite(nb[i][1][0])
             /\ row_class[i] \notin {"tp", "tp2"})
            => row_class[i] = "sweep"

\* the sweeps present before and after a step
Both(a, b) == 1 .. (IF Len(a) <= Len(b) THEN Len(a) ELSE Len(b))

IsBroadcastField(f) == f <= FirstFields \/ startswith_AsyncAD(nb_keys[f])

\* C3 as stated: no step of notebook() turns a non-NaN cell of a sweep record
\* into NaN, and the dictionary made of it does not hold None for that cell.
C3_NonNaNNeverLost ==
    [][\A j \in Both(sweep_entries, sweep_entries') :
         \A f \in DOMAIN sweep_entries[j].entry : \A c \in Chans :
            ~isnan(sweep_entries[j].entry[f][c])
            => /\ ~isnan(sweep_entries'[j].entry[f][c])
               /\ HasMeta(sweep_entries'[j])
                    => sweep_entries'[j].meta[c][nb_keys[f]] # None]_vars

\* C3 (amended): a non-NaN cell is never turned into NaN by the row merge or
\* the global override, nor by the two broadcasts when channel 0 of the field
\* is non-NaN; such a cell is not None in the dictionary.  (The broadcasts
\* copy channel 0 over the other channels, NaN included.)
C3_NonNaNKeptUnlessBroadcastOfNaN ==
    [][\A j \in Both(sweep_entries, sweep_entries') :
         \A f \in DOMAIN sweep_entries[j].entry : \A c \in Chans :
            (/\ ~isnan(sweep_entries[j].entry[f][c])
             /\ IsBroadcastField(f) => ~isnan(sweep_entries[j].entry[f][0]))
            => /\ ~isnan(sweep_entries'[j].entry[f][c])
               /\ HasMeta(sweep_entries'[j])
                    => sweep_entries'[j].meta[c][nb_keys[f]] # None]_vars

\* C3 witness: notebook() has returned a sweep merged from two rows where an
\* ordinary field is set on a headstage by the first row and NaN in the last,
\* and the dictionary holds the value.
C3_Witness ==
    /\ pc = "done"
    /\ \E j \in 1 .. Len(sweep_entries) :
         /\ Cardinality(SweepRows(sweep_entries[j].swid)) >= 2
         /\ isnan(nb[MaxOf(SweepRows(sweep_entries[j].swid))][8][3])
         /\ ~isnan(nb[MinOf(SweepRows(sweep_entries[j].swid))][8][3])
         /\ sweep_entries[j].meta[3][nb_keys[8]] # None

\* the value of cell (f, c) in the last / first of the rows that holds one
LastNonNaN(rows, f, c) ==
    IF \E i \in rows : ~isnan(nb[i][f][c])
    THEN nb[MaxOf({i \in rows : ~isnan(nb[i][f][c])})][f][c]
    ELSE NaN

FirstNonNaN(rows, f, c) ==
    IF \E i \in rows : ~isnan(nb[i][f][c])
    THEN nb[MinOf({i \in rows : ~isnan(nb[i][f][c])})][f][c]
    ELSE NaN

\* C4 as stated: during the row scan every cell of a sweep record holds the
\* value of the first row of that sweep in which the cell is non-NaN.
C4_FirstNonNaNKept ==
    pc = "scan" =>
        \A j \in 1 .. Len(sweep_entries) :
            \A f \in DOMAIN sweep_entries[j].entry : \A c \in Chans :
                sweep_entries[j].entry[f][c]
                    = FirstNonNaN(SweepRows(sweep_entries[j].swid), f, c)

\* C4 (amended): during the row scan every cell of a sweep record holds the
\* value of the last row of that sweep in which the cell is non-NaN (a later
\* non-NaN value overwrites an earlier one), and NaN when there is none.
C4_LastNonNaNWins ==
    pc = "scan" =>
        \A j \in 1 .. Len(sweep_entries) :
            \A f \in DOMAIN sweep_entries[j].entry : \A c \in Chans :
                sweep_entries[j].entry[f][c]
                    = LastNonNaN(SweepRows(sweep_entries[j].swid), f, c)

\* C4 witness: the scan has ended with a sweep of two rows that both set the
\* same cell.
C4_Witness ==
    /\ pc = "scan" /\ pos > Len(nb)
    /\ \E j \in 1 .. Len(sweep_entries) : \E f \in DataFields : \E c \in Chans :
         /\ Cardinality({i \in SweepRows(sweep_entries[j].swid) :
                            ~isnan(nb[i][f][c])}) >= 2
         /\ sweep_entries[j].entry[f][c]
                # FirstNonNaN(SweepRows(sweep_entries[j].swid), f, c)

\* C5: in every sweep notebook() has converted, a field whose global column
\* (channel 8) was non-NaN in the merged record holds that value in all nine
\* channel dictionaries.
C5_GlobalValueInEveryChannel ==
    \A j \in 1 .. Len(sweep_entries) :
        HasMeta(sweep_entries[j]) =>
            \A f \in DOMAIN merged[j].entry :
                ~isnan(merged[j].entry[f][GlobalChan]) =>
                    \A c \in Chans :
                        sweep_entries[j].meta[c][nb_keys[f]]
                            = merged[j].entry[f][GlobalChan]

\* C5 witness: notebook() has returned a sweep in which an identity field and
\* an 'Async AD ' field had a value on a headstage and another in the global
\* column, and the headstage's dictionary holds the global one.
C5_Witness ==
    /\ pc = "done"
    /\ \E j \in 1 .. Len(sweep_entries) : \A f \in {2, 7} :
         /\ ~isnan(merged[j].entry[f][GlobalChan])
         /\ ~isnan(merged[j].entry[f][3])
         /\ merged[j].entry[f][3] # merged[j].entry[f][GlobalChan]
         /\ sweep_entries[j].meta[3][nb_keys[f]] = merged[j].entry[f][GlobalChan]

-----------------------------------------------------------------------------
(* Properties of the test pulses *)

Distance(j) == AbsSeconds(tp_list[j].timestamp, meta.start_time)

NearestReturned ==
    /\ rpc = "built"
    /\ out.kind = "nearest_test_pulse"
    /\ ~has_inserted_test_pulse(meta)

\* C6: for a recording without inserted test pulse, nearest_test_pulse returns
\* None (and raises nothing) when there is no test pulse block, and otherwise
\* the MiesTestPulse of the block at the least distance in time from the
\* recording's start, the first such block of the list.
C6_NearestIsFirstMinimum ==
    NearestReturned =>
        /\ out.raised = ""
        /\ out.value = nearest
        /\ IF Len(tp_list) = 0
           THEN out.value.kind = "None"
           ELSE /\ out.value.kind = "MiesTestPulse"
                /\ out.value.index \in 1 .. Len(tp_list)
                /\ \A i \in 1 .. Len(tp_list) :
                      /\ Distance(out.value.index) <= Distance(i)
                      /\ i < out.value.index => Distance(out.value.index) < Distance(i)
                /\ out.value = MiesTestPulse(out.value.index,
                                             tp_list[out.value.index], device_id)

\* C6 witness: nearest_test_pulse has returned the first of two blocks that
\* are at the same, least distance, a later block being farther away.
C6_Witness ==
    /\ NearestReturned
    /\ Len(tp_list) >= 3
    /\ \E i \in 1 .. Len(tp_list) :
         /\ i > out.value.index
         /\ Distance(i) = Distance(out.value.index)
         /\ tp_list[i].timestamp # tp_list[out.value.index].timestamp
    /\ \E i \in 1 .. Len(tp_list) : Distance(i) > Distance(out.value.index)

-----------------------------------------------------------------------------
(* Properties of the store handle *)

\* C8: whatever close() and open() calls came before, a recording reads
\* through a group of the handle that is open at the time of the read.
C8_ReadsThroughOpenHandle ==
    last_read.rec # 0 => last_read.file = last_read.open

-----------------------------------------------------------------------------
(* Properties of one recording *)

\* C9: when 'Delay onset user' is > 0 the first baseline region runs from
\* index onset_auto / dt to index (onset_auto + onset_user) / dt; when it is
\* not, the list holds no onset region.
C9_OnsetRegionSpansAutoPlusUser ==
    (rpc = "built" /\ out.kind = "baseline_regions" /\ out.raised = "") =>
        IF rnb["Delay onset user"].v > 0
        THEN /\ Len(out.value) >= 1
             /\ out.value[1] =
                  [start |-> Num(OnsetStart(rnb["Delay onset auto"], dt_ms)),
                   stop  |-> Num(OnsetStop_Sum(rnb["Delay onset auto"],
                                               rnb["Delay onset user"], dt_ms))]
        ELSE \A j \in 1 .. Len(out.value) : out.value[j].stop = None

\* C10: an unset (None) field raises nothing: the holding values, the bridge
\* balance and the pipette offset of a constructed recording are None or a
\* number, and reading the command trace's data raises nothing.
C10_UnsetFieldNeverRaises ==
    /\ rpc = "built" =>
         /\ rnb["V-Clamp Holding Level"] = None => meta.holding_potential = None
         /\ rnb["I-Clamp Holding Level"] = None => meta.holding_current = None
         /\ rnb["Pipette Offset"] = None => meta.pipette_offset = None
         /\ meta.bridge_balance.t \in {"num", "none"}
    /\ out.kind = "command" => out.raised = ""

-----------------------------------------------------------------------------
(* Properties of test_pulse_entries() *)

\* C11: on one MiesNwb instance every test_pulse_entries() call returns the
\* list of test pulse blocks, whether or not notebook() was called before it;
\* every call that returns gives back the same blocks as the first one that
\* returned; and the raw table is read into an array at most once.
C11_EntriesInEveryCallOrder ==
    /\ tpe_out.called => /\ tpe_out.raised = ""
                         /\ tpe_out.value = tpe_out.first
    /\ reads <= 1

=============================================================================
